---- MODULE Spec2Model ----
(***************************************************************************)
(* The database-backed WireGuard provisioning bot, src/opt/wg-bot/wg_bot.py *)
(* The state is the peers table, the peer table of the WireGuard interface, *)
(* and the coroutines of the command handlers.  A handler runs without      *)
(* interruption between two awaits (the event loop is single threaded and   *)
(* subprocess.run blocks), so one action is the code from one await to the  *)
(* next; several handlers may be suspended at an await at the same time.    *)
(* The code after the document reply of newclient and get_config (the QR    *)
(* picture, lines 139-144 and 175-180) reads only locals and touches no     *)
(* shared state, so it is taken in the same step as the document reply.     *)
(* Message texts are transliterated to ASCII.                               *)
(* The file-based bot, src/wg_bot.py, is modelled beside it: its state is   *)
(* the set of client files; its handlers touch shared state before their    *)
(* first await only, so each is one step.  SeqSpec runs both bots with the  *)
(* handlers of the database-backed bot one after the other.                 *)
(***************************************************************************)
EXTENDS Integers, Sequences, FiniteSets, TLC

\* ---------------------------------------------------------------- bounds
\* handler coroutines that may be in flight together
NumProcs == 2
\* client names the callers use
NumNames == 3
\* number of addresses in the pool, CLIENT_MAX - CLIENT_START + 1
PoolSize == 2
\* key pairs the toolchain hands out in one run
MaxKeys == 3

\* ------------------------------------------------- configuration (ENV)
CLIENT_BASE == "10.0.0."
CLIENT_START == 2
CLIENT_MAX == CLIENT_START + PoolSize - 1
SERVER_PUBLIC_IP == "203.0.113.1"
SERVER_WG_PORT == 51820
SERVER_PUBLIC_KEY == "SERVERPUB"
SERVER_INTERFACE == "wg0"
\* os.getenv of an unset variable, and a local that is not assigned
None == "None"
\* TG_ADMIN_CHAT_ID is set: what an unset one allows, the admin chat does here
ADMIN_CHAT_ID == "1001"
\* the optional qrcode module is installed
qrcode == TRUE
\* update.effective_chat.id of the chats that write to the bot
AdminChat == 1001
OtherChat == 2002
Chats == {AdminChat, OtherChat}

Procs == 1 .. NumProcs
NameList == <<"alice", "bob", "carol", "dave", "erin">>
Names == {NameList[i] : i \in 1 .. NumNames}
\* context.args: the words after the command; only args[0] is read
ArgLists == {<< >>} \cup {<<n>> : n \in Names}

\* how a subprocess.run of wg can end: exit status 0, a non-zero exit
\* status, or an OSError because the binary cannot be started
RunOutcomes == {"ok", "nonzero", "oserror"}
\* no outcome when live mutation is disabled: wg is not run
SetOutcomes(enabled) == IF enabled THEN RunOutcomes ELSE {None}
\* gen_keypair runs wg twice
GenOutcomes == {"ok", "genkey_nonzero", "pubkey_nonzero", "oserror"}

VARIABLES
    APPLY_PEER,      \* configuration flag, fixed at start
    peers,           \* rows of the peers table
    iface,           \* peer entries of the WireGuard interface
    keysGenerated,   \* how many private keys wg genkey has produced
    pc,              \* per handler: "idle", or the line its coroutine resumes at
    name,            \* per handler: local name
    priv,            \* per handler: local priv
    pub,             \* per handler: local pub
    ip,              \* per handler: local ip
    out,             \* per handler: the replies sent to the caller so far
    calls,           \* per handler: helpers and statements executed so far
    last,            \* the request that ended in the latest step, if one did
    profile,         \* history: the profiles sent for the keys of the rows in peers
    removeFailed,    \* history: whether a removal from the interface has failed
    files            \* src/wg_bot.py: the names with a file in WG_CONFIG_DIR

vars == <<APPLY_PEER, peers, iface, keysGenerated,
          pc, name, priv, pub, ip, out, calls, last, profile, removeFailed, files>>

\* ---------------------------------------------------------------- replies
reply_text(s) == [kind |-> "text", text |-> s, filename |-> "", caption |-> ""]
reply_document(s, f, c) == [kind |-> "document", text |-> s, filename |-> f, caption |-> c]
reply_photo(s, f, c) == [kind |-> "photo", text |-> s, filename |-> f, caption |-> c]

\* ------------------------------------------------------------- utilities
\* the k-th run of `wg genkey`, and `wg pubkey` of its output
WgGenkey(k) == "priv" \o ToString(k)
WgPubkey(k) == "pub" \o ToString(k)

\* gen_keypair without the returncode tests of lines 61 and 65: the empty
\* output of a failed wg is taken as the key
gen_keypair_unchecked(k, outcome) ==
    IF outcome = "oserror"
    THEN [ok |-> FALSE, priv |-> None, pub |-> None, err |-> "No such file or directory: wg"]
    ELSE [ok |-> TRUE,
          priv |-> IF outcome = "genkey_nonzero" THEN "" ELSE WgGenkey(k),
          pub |-> IF outcome = "ok" THEN WgPubkey(k) ELSE "",
          err |-> ""]

gen_keypair(k, outcome) ==
    IF outcome = "oserror"
    THEN [ok |-> FALSE, priv |-> None, pub |-> None, err |-> "No such file or directory: wg"]
    ELSE IF outcome = "genkey_nonzero"
    THEN [ok |-> FALSE, priv |-> None, pub |-> None, err |-> "wg genkey failed: stderr"]
    ELSE IF outcome = "pubkey_nonzero"
    THEN [ok |-> FALSE, priv |-> WgGenkey(k), pub |-> None, err |-> "wg pubkey failed: stderr"]
    ELSE [ok |-> TRUE, priv |-> WgGenkey(k), pub |-> WgPubkey(k), err |-> ""]

\* f"{CLIENT_BASE}{i}"
Address(i) == CLIENT_BASE \o ToString(i)

\* SELECT address FROM peers
UsedAddresses(rows) == {r.address : r \in rows}

RECURSIVE ScanFrom(_, _, _)
ScanFrom(i, stop, used) ==
    IF i > stop THEN None
    ELSE IF Address(i) \notin used THEN Address(i)
    ELSE ScanFrom(i + 1, stop, used)

\* next_free_ip without the test against the used addresses
next_free_ip_first(rows) == Address(CLIENT_START)

\* next_free_ip with range(CLIENT_START, CLIENT_MAX)
next_free_ip_short(rows) == ScanFrom(CLIENT_START, CLIENT_MAX - 1, UsedAddresses(rows))

\* next_free_ip with range(CLIENT_START, CLIENT_MAX + 2)
next_free_ip_over(rows) == ScanFrom(CLIENT_START, CLIENT_MAX + 1, UsedAddresses(rows))

\* next_free_ip scanning from the upper end of the range
next_free_ip_highest(rows) ==
    LET free == {i \in CLIENT_START .. CLIENT_MAX : Address(i) \notin UsedAddresses(rows)}
    IN IF free = {} THEN None
       ELSE Address(CHOOSE i \in free : \A j \in free : j <= i)

\* the scan of range(CLIENT_START, CLIENT_MAX + 1); None stands for the
\* RuntimeError('No free IPs left in pool')
next_free_ip(rows) == ScanFrom(CLIENT_START, CLIENT_MAX, UsedAddresses(rows))

\* a profile that routes only the IPv4 catch-all range, as
\* build_client_config of src/wg_bot.py does
make_conf_ipv4(client_priv, client_ip) ==
    "[Interface]\nPrivateKey = " \o client_priv
    \o "\nAddress = " \o client_ip \o "/32"
    \o "\nDNS = 1.1.1.1\n\n[Peer]\nPublicKey = " \o SERVER_PUBLIC_KEY
    \o "\nEndpoint = " \o SERVER_PUBLIC_IP \o ":" \o ToString(SERVER_WG_PORT)
    \o "\nAllowedIPs = 0.0.0.0/0\nPersistentKeepalive = 25\n"

make_conf(client_priv, client_ip) ==
    "[Interface]\nPrivateKey = " \o client_priv
    \o "\nAddress = " \o client_ip \o "/32"
    \o "\nDNS = 1.1.1.1\n\n[Peer]\nPublicKey = " \o SERVER_PUBLIC_KEY
    \o "\nEndpoint = " \o SERVER_PUBLIC_IP \o ":" \o ToString(SERVER_WG_PORT)
    \o "\nAllowedIPs = 0.0.0.0/0, ::/0\nPersistentKeepalive = 25\n"

\* ------------------------------------------------------ the peers table
\* a name column without the UNIQUE constraint
NameExists_never(rows, n) == FALSE

\* the UNIQUE constraint on name: an INSERT of a taken name raises
\* sqlite3.IntegrityError
NameExists(rows, n) == \E r \in rows : r.name = n

\* a row id that fills the lowest gap left by a deleted row
NextRowId_reuse(rows) ==
    CHOOSE i \in 1 .. Cardinality(rows) + 1 :
        /\ i \notin {r.id : r \in rows}
        /\ \A j \in 1 .. i - 1 : j \in {r.id : r \in rows}

\* id INTEGER PRIMARY KEY without AUTOINCREMENT: one more than the largest id
NextRowId(rows) ==
    IF rows = {} THEN 1
    ELSE (CHOOSE m \in {r.id : r \in rows} : \A r \in rows : r.id <= m) + 1

\* INSERT INTO peers(name, private_key, public_key, address); created_at is
\* a logical time stamp
Insert(rows, n, pr, pu, a, t) ==
    rows \cup {[id |-> NextRowId(rows), name |-> n, private_key |-> pr,
                public_key |-> pu, address |-> a, created_at |-> t]}

\* SELECT ... FROM peers without the WHERE clause: fetchone() gives some row
SelectByName_any(rows, n) ==
    IF NameExists(rows, n) THEN CHOOSE r \in rows : r.name # n \/ Cardinality(rows) = 1
    ELSE None

\* SELECT ... FROM peers WHERE name=? and fetchone(): a row or None
SelectByName(rows, n) ==
    IF NameExists(rows, n) THEN CHOOSE r \in rows : r.name = n ELSE None

\* DELETE FROM peers, without the WHERE clause
DeleteByName_all(rows, n) == {}

\* DELETE FROM peers WHERE name=?
DeleteByName(rows, n) == {r \in rows : r.name # n}

\* SELECT ... FROM peers ORDER BY id and fetchall()
RECURSIVE OrderById(_)
OrderById(rows) ==
    IF rows = {} THEN << >>
    ELSE LET first == CHOOSE r \in rows : \A q \in rows : r.id <= q.id
         IN <<first>> \o OrderById(rows \ {first})

\* '\n'.join of the lines f"{r[0]} - {r[1]} - {r[2]}"
RECURSIVE JoinLines(_)
JoinLines(rs) ==
    IF rs = << >> THEN ""
    ELSE "\n" \o rs[1].name \o " - " \o rs[1].address \o " - "
         \o ToString(rs[1].created_at) \o JoinLines(Tail(rs))

\* ------------------------------------------------------- the interface
\* wg set with the one fixed allowed-ips value that apply_peer_to_server of
\* src/wg_bot.py passes
WgSetPeer_fixed(table, client_pub, client_ip, outcome) ==
    IF outcome = "ok"
    THEN {e \in table : e.public_key # client_pub}
         \cup {[public_key |-> client_pub, allowed_ips |-> "10.0.0.2/32"]}
    ELSE table

\* wg set <interface> peer <pub> allowed-ips <ip>/32: adds the peer or
\* replaces its allowed ips; a failed run changes nothing
WgSetPeer(table, client_pub, client_ip, outcome) ==
    IF outcome = "ok"
    THEN {e \in table : e.public_key # client_pub}
         \cup {[public_key |-> client_pub, allowed_ips |-> client_ip \o "/32"]}
    ELSE table

\* a removal that leaves the peer on the interface and exits with status 0
WgRemovePeer_keeps(table, client_pub, outcome) == table

\* wg set <interface> peer <pub> remove
WgRemovePeer(table, client_pub, outcome) ==
    IF outcome = "ok" THEN {e \in table : e.public_key # client_pub} ELSE table

\* apply_peer_to_interface without the test of APPLY_PEER at line 96
apply_peer_to_interface_always(table, enabled, client_pub, client_ip, outcome) ==
    [iface |-> WgSetPeer(table, client_pub, client_ip, IF enabled THEN outcome ELSE "ok"),
     ran |-> TRUE,
     err |-> IF ~enabled \/ outcome = "ok" THEN ""
             ELSE IF outcome = "nonzero" THEN "wg set failed: stderr"
             ELSE "No such file or directory: wg"]

\* the result of apply_peer_to_interface: the interface afterwards, whether
\* wg was run, and the exception raised ("" when none)
apply_peer_to_interface(table, enabled, client_pub, client_ip, outcome) ==
    IF ~enabled
    THEN [iface |-> table, ran |-> FALSE, err |-> ""]
    ELSE [iface |-> WgSetPeer(table, client_pub, client_ip, outcome),
          ran |-> TRUE,
          err |-> IF outcome = "ok" THEN ""
                  ELSE IF outcome = "nonzero" THEN "wg set failed: stderr"
                  ELSE "No such file or directory: wg"]

\* handlers without the admin test
NotAdmin_never(admin, chat_id) == FALSE

\* ADMIN_CHAT_ID and str(update.effective_chat.id) != str(ADMIN_CHAT_ID)
NotAdmin(admin, chat_id) == admin # None /\ ToString(chat_id) # admin

\* ----------------------------------------------------------------- Init
\* the value of `last` after a step in which no request ended
NoRequest == [cmd |-> None, chat |-> None, name |-> None, priv |-> None,
              pub |-> None, ip |-> None, out |-> << >>, calls |-> << >>]

Init ==
    /\ APPLY_PEER \in BOOLEAN
    /\ peers = {}
    /\ iface = {}
    /\ keysGenerated = 0
    /\ pc = [p \in Procs |-> "idle"]
    /\ name = [p \in Procs |-> None]
    /\ priv = [p \in Procs |-> None]
    /\ pub = [p \in Procs |-> None]
    /\ ip = [p \in Procs |-> None]
    /\ out = [p \in Procs |-> << >>]
    /\ calls = [p \in Procs |-> << >>]
    /\ last = NoRequest
    /\ profile = {}
    /\ removeFailed = FALSE
    /\ files = {}

\* handler p is suspended at an await and resumes at st
Suspend(p, st, n, pr, pu, i, o, cl) ==
    /\ pc' = [pc EXCEPT ![p] = st]
    /\ name' = [name EXCEPT ![p] = n]
    /\ priv' = [priv EXCEPT ![p] = pr]
    /\ pub' = [pub EXCEPT ![p] = pu]
    /\ ip' = [ip EXCEPT ![p] = i]
    /\ out' = [out EXCEPT ![p] = o]
    /\ calls' = [calls EXCEPT ![p] = cl]
    /\ last' = NoRequest

\* handler p sends its last reply and its coroutine ends
Finish(p, c, ch, n, pr, pu, i, o, cl) ==
    /\ pc' = [pc EXCEPT ![p] = "idle"]
    /\ name' = [name EXCEPT ![p] = None]
    /\ priv' = [priv EXCEPT ![p] = None]
    /\ pub' = [pub EXCEPT ![p] = None]
    /\ ip' = [ip EXCEPT ![p] = None]
    /\ out' = [out EXCEPT ![p] = << >>]
    /\ calls' = [calls EXCEPT ![p] = << >>]
    /\ last' = [cmd |-> c, chat |-> ch, name |-> n, priv |-> pr, pub |-> pu,
                ip |-> i, out |-> o, calls |-> cl]

\* a new update is served by the first coroutine slot that is free: which
\* slot serves it makes no difference to the code
Free(p) == pc[p] = "idle" /\ \A q \in Procs : q < p => pc[q] # "idle"

\* the replies of lines 139-144 and 175-180: the QR picture, when the
\* qrcode module is there
QrReplies(conf_text, n, caption) ==
    IF qrcode THEN <<reply_photo(conf_text, n \o ".png", caption)>> ELSE << >>

\* the history of profiles once the table holds rows: the profiles of
\* deleted rows are forgotten
Kept(sent, rows) == {d \in sent : \E r \in rows : r.private_key = d.private_key}

\* ------------------------------------------------------------- handlers
\* start, lines 106-107
start(p) ==
    /\ Free(p)
    /\ Finish(p, "start", None, None, None, None, None,
              <<reply_text("Privet! Ya generiruyu WireGuard-konfigi. Ispolzui /newclient <name>.")>>,
              << >>)
    /\ UNCHANGED <<APPLY_PEER, files, peers, iface, keysGenerated, profile, removeFailed>>

\* a document rendered from the name instead of the private key
NewclientDocument_name(n, pr, i) ==
    reply_document(make_conf(n, i), n \o ".conf", "Config " \o n \o " (" \o i \o ")")

\* the document newclient sends, lines 134-137
NewclientDocument(n, pr, i) ==
    reply_document(make_conf(pr, i), n \o ".conf", "Config " \o n \o " (" \o i \o ")")

\* the statements newclient has executed when it has passed line 130
NewclientCalls(n, kp, free, ap) ==
    << <<"wg", "genkey">>, <<"wg", "pubkey">>, <<"next_free_ip">>,
       <<"INSERT", n, kp.priv, kp.pub, free>> >>
    \o (IF ap.ran THEN << <<"wg", "set", "peer", kp.pub, "allowed-ips", free \o "/32">> >>
        ELSE << >>)

\* lines 122-144 of newclient, for a name that INSERT accepts
NewclientInsert(p, n, kp, free, a) ==
    LET ap == apply_peer_to_interface(iface, APPLY_PEER, kp.pub, free, a)
        rows == Insert(peers, n, kp.priv, kp.pub, free, keysGenerated + 1)
        doc == NewclientDocument(n, kp.priv, free)
        docCalls == NewclientCalls(n, kp, free, ap) \o << <<"make_conf", kp.priv, free>> >>
    IN
    /\ peers' = rows
    /\ iface' = ap.iface
    /\ IF ap.err # ""
       THEN /\ Suspend(p, "newclient_134", n, kp.priv, kp.pub, free,
                       <<reply_text("Ne udalos primenit k interfeisu: " \o ap.err)>>,
                       NewclientCalls(n, kp, free, ap))
            /\ UNCHANGED profile
       ELSE /\ Finish(p, "newclient", None, n, kp.priv, kp.pub, free,
                      <<doc>> \o QrReplies(doc.text, n, "QR"), docCalls)
            /\ profile' = Kept(profile \cup {[private_key |-> kp.priv, text |-> doc.text]},
                               rows)

\* newclient from its start to the reply of line 132 or to its end, lines 110-144
newclient(p) ==
    /\ Free(p)
    /\ UNCHANGED <<APPLY_PEER, files, removeFailed>>
    /\ \E args \in ArgLists :
        IF args = << >>
        THEN /\ Finish(p, "newclient", None, None, None, None, None,
                       <<reply_text("Ispolzovanie: /newclient <client_name>")>>, << >>)
             /\ UNCHANGED <<peers, iface, keysGenerated, profile>>
        ELSE
        /\ keysGenerated < MaxKeys
        /\ \E g \in GenOutcomes :
            LET n == args[1]
                kp == gen_keypair(keysGenerated + 1, g)
                free == next_free_ip(peers)
                genCalls == IF kp.priv = None
                            THEN << <<"wg", "genkey">> >>
                            ELSE << <<"wg", "genkey">>, <<"wg", "pubkey">> >>
            IN
            /\ keysGenerated' = IF kp.priv = None THEN keysGenerated ELSE keysGenerated + 1
            /\ IF ~kp.ok
               THEN /\ Finish(p, "newclient", None, n, None, None, None,
                              <<reply_text("Oshibka: " \o kp.err)>>, genCalls)
                    /\ UNCHANGED <<peers, iface, profile>>
               ELSE IF free = None
               THEN /\ Finish(p, "newclient", None, n, kp.priv, kp.pub, None,
                              <<reply_text("Oshibka: No free IPs left in pool")>>,
                              genCalls \o << <<"next_free_ip">> >>)
                    /\ UNCHANGED <<peers, iface, profile>>
               ELSE IF NameExists(peers, n)
               THEN /\ Finish(p, "newclient", None, n, kp.priv, kp.pub, free,
                              <<reply_text("Klient s takim imenem uzhe sushchestvuet.")>>,
                              genCalls \o << <<"next_free_ip">>,
                                             <<"INSERT", n, kp.priv, kp.pub, free>> >>)
                    /\ UNCHANGED <<peers, iface, profile>>
               ELSE \E a \in SetOutcomes(APPLY_PEER) : NewclientInsert(p, n, kp, free, a)

\* newclient resumed after the reply of line 132: lines 134-144
newclient_134(p) ==
    /\ pc[p] = "newclient_134"
    /\ LET doc == NewclientDocument(name[p], priv[p], ip[p])
           o == Append(out[p], doc) \o QrReplies(doc.text, name[p], "QR")
           cl == Append(calls[p], <<"make_conf", priv[p], ip[p]>>)
       IN /\ Finish(p, "newclient", None, name[p], priv[p], pub[p], ip[p], o, cl)
          /\ profile' = Kept(profile \cup {[private_key |-> priv[p], text |-> doc.text]},
                             peers)
    /\ UNCHANGED <<APPLY_PEER, files, peers, iface, keysGenerated, removeFailed>>

\* list_clients, lines 147-157
list_clients(p) ==
    /\ Free(p)
    /\ UNCHANGED <<APPLY_PEER, files, peers, iface, keysGenerated, profile, removeFailed>>
    /\ \E c \in Chats :
        IF NotAdmin(ADMIN_CHAT_ID, c)
        THEN Finish(p, "list", ToString(c), None, None, None, None,
                    <<reply_text("Tolko administrator mozhet smotret spisok klientov.")>>,
                    << >>)
        ELSE IF peers = {}
        THEN Finish(p, "list", ToString(c), None, None, None, None,
                    <<reply_text("Net klientov")>>, << <<"SELECT">> >>)
        ELSE Finish(p, "list", ToString(c), None, None, None, None,
                    <<reply_text("Spisok klientov:" \o JoinLines(OrderById(peers)))>>,
                    << <<"SELECT">> >>)

\* get_config, lines 160-180
get_config(p) ==
    /\ Free(p)
    /\ UNCHANGED <<APPLY_PEER, files, peers, iface, keysGenerated, removeFailed>>
    /\ \E args \in ArgLists :
        LET n == args[1]
            row == SelectByName(peers, n)
            doc == reply_document(make_conf(row.private_key, row.address), n \o ".conf", "")
            cl == << <<"SELECT", n>>, <<"make_conf", row.private_key, row.address>> >>
        IN
        IF args = << >>
        THEN /\ Finish(p, "config", None, None, None, None, None,
                       <<reply_text("Ispolzovanie: /config <client_name>")>>, << >>)
             /\ UNCHANGED profile
        ELSE IF ~NameExists(peers, n)
        THEN /\ Finish(p, "config", None, n, None, None, None,
                       <<reply_text("Klient ne naiden")>>, << <<"SELECT", n>> >>)
             /\ UNCHANGED profile
        ELSE /\ Finish(p, "config", None, n, row.private_key, None, row.address,
                       <<doc>> \o QrReplies(doc.text, n, ""), cl)
             /\ profile' = Kept(profile \cup {[private_key |-> row.private_key,
                                               text |-> doc.text]}, peers)

\* a revoke that deletes the row without touching the interface, as revoke
\* of src/wg_bot.py removes only the file
RevokeRemove_skip(table, enabled, client_pub, outcome) ==
    [iface |-> table, ran |-> FALSE, err |-> ""]

\* lines 197-201 of revoke: the interface afterwards, whether wg was run,
\* and the exception caught ("" when none: the exit status is not read)
RevokeRemove(table, enabled, client_pub, outcome) ==
    IF ~enabled
    THEN [iface |-> table, ran |-> FALSE, err |-> ""]
    ELSE [iface |-> WgRemovePeer(table, client_pub, outcome),
          ran |-> TRUE,
          err |-> IF outcome = "oserror" THEN "No such file or directory: wg" ELSE ""]

\* the reply of line 204
RevokeDone(n, i) == reply_text("Klient " \o n \o " (" \o i \o ") udalyon")

\* lines 196-204 of revoke, for the row that the lookup found
RevokeRow(p, c, n, row, o) ==
    LET rm == RevokeRemove(iface, APPLY_PEER, row.public_key, o)
        rmCalls == << <<"SELECT", n>> >>
                   \o (IF rm.ran
                       THEN << <<"wg", "set", "peer", row.public_key, "remove">> >>
                       ELSE << >>)
    IN
    /\ iface' = rm.iface
    /\ removeFailed' = (removeFailed \/ (rm.ran /\ o # "ok"))
    /\ IF rm.err # ""
       THEN /\ Suspend(p, "revoke_202", n, None, row.public_key, row.address,
                       <<reply_text("Ne udalos udalit peer: " \o rm.err)>>, rmCalls)
            /\ UNCHANGED <<peers, profile>>
       ELSE /\ Finish(p, "revoke", ToString(c), n, None, row.public_key, row.address,
                      <<RevokeDone(n, row.address)>>,
                      rmCalls \o << <<"DELETE", n>> >>)
            /\ peers' = DeleteByName(peers, n)
            /\ profile' = Kept(profile, DeleteByName(peers, n))

\* revoke from its start to its first await, lines 183-204
revoke(p) ==
    /\ Free(p)
    /\ UNCHANGED <<APPLY_PEER, files, keysGenerated>>
    /\ \E args \in ArgLists :
        IF args = << >>
        THEN /\ Finish(p, "revoke", None, None, None, None, None,
                       <<reply_text("Ispolzovanie: /revoke <client_name>")>>, << >>)
             /\ UNCHANGED <<peers, iface, profile, removeFailed>>
        ELSE \E c \in Chats :
            LET n == args[1] IN
            IF NotAdmin(ADMIN_CHAT_ID, c)
            THEN /\ Finish(p, "revoke", ToString(c), None, None, None, None,
                           <<reply_text("Tolko administrator mozhet otzyvat klientov.")>>,
                           << >>)
                 /\ UNCHANGED <<peers, iface, profile, removeFailed>>
            ELSE IF ~NameExists(peers, n)
            THEN /\ Finish(p, "revoke", ToString(c), n, None, None, None,
                           <<reply_text("Klient ne naiden")>>, << <<"SELECT", n>> >>)
                 /\ UNCHANGED <<peers, iface, profile, removeFailed>>
            ELSE \E o \in SetOutcomes(APPLY_PEER) :
                    RevokeRow(p, c, n, SelectByName(peers, n), o)

\* revoke resumed after the reply of line 201: lines 202-204
revoke_202(p) ==
    /\ pc[p] = "revoke_202"
    /\ Finish(p, "revoke", None, name[p], priv[p], pub[p], ip[p],
              Append(out[p], RevokeDone(name[p], ip[p])),
              Append(calls[p], <<"DELETE", name[p]>>))
    /\ peers' = DeleteByName(peers, name[p])
    /\ profile' = Kept(profile, DeleteByName(peers, name[p]))
    /\ UNCHANGED <<APPLY_PEER, files, iface, keysGenerated, removeFailed>>

Next ==
    \E p \in Procs :
        \/ start(p)
        \/ newclient(p)
        \/ newclient_134(p)
        \/ list_clients(p)
        \/ get_config(p)
        \/ revoke(p)
        \/ revoke_202(p)

Spec == Init /\ [][Next]_vars

\* ------------------------------------------- the file-based bot, src/wg_bot.py
\* the command line of apply_peer_to_server, lines 63-73
ApplyCallFixed(public_key) ==
    <<"wg", "set", "peer", public_key, "allowed-ips", "10.0.0.2/32">>

\* the file content: build_client_config(...).strip(), lines 39-50 and 57
stripped_client_config(n, private_key) ==
    "[Interface]\nPrivateKey = " \o private_key
    \o "\nAddress = 10.0.0.2/32\nDNS = 1.1.1.1\n\n[Peer]\nPublicKey = " \o SERVER_PUBLIC_KEY
    \o "\nEndpoint = " \o SERVER_PUBLIC_IP \o ":" \o ToString(SERVER_WG_PORT)
    \o "\nAllowedIPs = 0.0.0.0/0\nPersistentKeepalive = 25"

build_client_config(n, private_key) == "\n" \o stripped_client_config(n, private_key) \o "\n"

\* open(path, "w"): the file of name n is created or overwritten
save_client_config(dir, n) == dir \cup {n}

\* wg set ... allowed-ips 10.0.0.2/32 with check=True
apply_peer_to_server(table, public_key, outcome) ==
    WgSetPeer(table, public_key, "10.0.0.2", outcome)

\* the orders in which os.listdir may give the files
Listings(dir) ==
    {s \in [1 .. Cardinality(dir) -> dir] : {s[i] : i \in 1 .. Cardinality(dir)} = dir}

\* "\n".join(files)
RECURSIVE JoinFiles(_)
JoinFiles(fs) ==
    IF Len(fs) = 0 THEN ""
    ELSE IF Len(fs) = 1 THEN fs[1] \o ".conf"
    ELSE fs[1] \o ".conf\n" \o JoinFiles(Tail(fs))

\* a handler of the file-based bot ends: with its replies, or without one
\* when an exception left it
FileFinish(c, ch, n, pr, pu, o, cl) ==
    /\ last' = [cmd |-> c, chat |-> ch, name |-> n, priv |-> pr, pub |-> pu,
                ip |-> None, out |-> o, calls |-> cl]
    /\ UNCHANGED <<APPLY_PEER, peers, pc, name, priv, pub, ip, out, calls,
                   profile, removeFailed>>

\* new_client, lines 91-110
new_client ==
    \E args \in ArgLists :
        IF args = << >>
        THEN /\ FileFinish("new_client", None, None, None, None,
                           <<reply_text("Usage: /newclient <name>")>>, << >>)
             /\ UNCHANGED <<files, iface, keysGenerated>>
        ELSE
        /\ keysGenerated < MaxKeys
        /\ \E g \in GenOutcomes, a \in SetOutcomes(APPLY_PEER) :
            LET n == args[1]
                kp == gen_keypair(keysGenerated + 1, g)
                config == build_client_config(n, kp.priv)
            IN
            /\ keysGenerated' = IF kp.priv = None THEN keysGenerated ELSE keysGenerated + 1
            /\ IF ~kp.ok
               THEN \* check_output raises: the handler ends without a reply
                    /\ FileFinish("new_client", None, n, None, None, << >>,
                                  << <<"wg", "genkey">> >>)
                    /\ UNCHANGED <<files, iface>>
               ELSE /\ files' = save_client_config(files, n)
                    /\ iface' = IF APPLY_PEER
                                THEN apply_peer_to_server(iface, kp.pub, a)
                                ELSE iface
                    /\ IF APPLY_PEER /\ a # "ok"
                       THEN \* check=True raises: no reply
                            FileFinish("new_client", None, n, kp.priv, kp.pub, << >>,
                                       << <<"save", n>>, ApplyCallFixed(kp.pub) >>)
                       ELSE FileFinish("new_client", None, n, kp.priv, kp.pub,
                                       <<reply_document(stripped_client_config(n, kp.priv),
                                                        n \o ".conf", ""),
                                         reply_photo(config, "", "")>>,
                                       << <<"save", n>> >>
                                       \o (IF APPLY_PEER THEN <<ApplyCallFixed(kp.pub)>>
                                           ELSE << >>))

\* list_clients of src/wg_bot.py, lines 113-122
list_clients_files ==
    /\ UNCHANGED <<files, iface, keysGenerated>>
    /\ \E c \in Chats :
        IF NotAdmin(ADMIN_CHAT_ID, c)
        THEN FileFinish("list_files", ToString(c), None, None, None,
                        <<reply_text("Access denied.")>>, << >>)
        ELSE IF files = {}
        THEN FileFinish("list_files", ToString(c), None, None, None,
                        <<reply_text("No clients found.")>>, << <<"listdir">> >>)
        ELSE \E s \in Listings(files) :
                FileFinish("list_files", ToString(c), None, None, None,
                           <<reply_text(JoinFiles(s))>>, << <<"listdir">> >>)

\* revoke of src/wg_bot.py, lines 125-142
revoke_files ==
    /\ UNCHANGED <<iface, keysGenerated>>
    /\ \E c \in Chats, args \in ArgLists :
        IF NotAdmin(ADMIN_CHAT_ID, c)
        THEN /\ FileFinish("revoke_files", ToString(c), None, None, None,
                           <<reply_text("Access denied.")>>, << >>)
             /\ UNCHANGED files
        ELSE IF args = << >>
        THEN /\ FileFinish("revoke_files", ToString(c), None, None, None,
                           <<reply_text("Usage: /revoke <name>")>>, << >>)
             /\ UNCHANGED files
        ELSE IF args[1] \notin files
        THEN /\ FileFinish("revoke_files", ToString(c), args[1], None, None,
                           <<reply_text("Client not found.")>>,
                           << <<"exists", args[1]>> >>)
             /\ UNCHANGED files
        ELSE /\ FileFinish("revoke_files", ToString(c), args[1], None, None,
                           <<reply_text("Client " \o args[1] \o " revoked (file removed).")>>,
                           << <<"exists", args[1]>>, <<"remove", args[1]>> >>)
             /\ files' = files \ {args[1]}

\* the handlers of the database-backed bot, one update after the other
SeqNext ==
    \/ start(1)
    \/ newclient(1)
    \/ newclient_134(1)
    \/ list_clients(1)
    \/ get_config(1)
    \/ revoke(1)
    \/ revoke_202(1)
    \/ new_client
    \/ list_clients_files
    \/ revoke_files

SeqSpec == Init /\ [][SeqNext]_vars

\* ------------------------------------------------------------ properties
RegKeys == {r.public_key : r \in peers}
IfaceKeys == {e.public_key : e \in iface}
Pool == CLIENT_START .. CLIENT_MAX
DuplicateReply == reply_text("Klient s takim imenem uzhe sushchestvuet.")
PoolExhaustedReply == reply_text("Oshibka: No free IPs left in pool")
NotFoundReply == reply_text("Klient ne naiden")

\* C1: under every interleaving of the handlers, no two rows of the peers
\* table have the same address
C1_UniqueAddresses ==
    \A r1, r2 \in peers : r1.address = r2.address => r1 = r2

\* two newclient calls are in flight together, both have inserted their
\* row, and the table holds as many addresses as rows
C1_Witness ==
    /\ \A p \in {1, 2} : pc[p] = "newclient_134"
    /\ name[1] # name[2]
    /\ ip[1] # ip[2]
    /\ Cardinality(UsedAddresses(peers)) = 2
    /\ Cardinality(peers) = 2

\* C2: there is at most one row for each name
C2_UniqueNames ==
    \A r1, r2 \in peers : r1.name = r2.name => r1 = r2

\* a newclient for a taken name has just been refused and one row has the name
C2_Witness ==
    /\ last.cmd = "newclient"
    /\ last.out = <<DuplicateReply>>
    /\ Cardinality({r \in peers : r.name = last.name}) = 1

\* C9: the address of every row is CLIENT_BASE followed by a number of the
\* range CLIENT_START .. CLIENT_MAX
C9_AddressInPool ==
    \A r \in peers : \E i \in Pool : r.address = CLIENT_BASE \o ToString(i)

\* the whole pool is allocated, its last address included
C9_Witness ==
    /\ Cardinality(peers) = PoolSize
    /\ \E r \in peers : r.address = CLIENT_BASE \o ToString(CLIENT_MAX)

\* --- the steps of a request, as the properties below see them
\* a newclient for name n runs its lines 110-130 in this step, and
\* gen_keypair has returned a key pair
NewclientRuns(n) ==
    \/ /\ last'.cmd = "newclient" /\ last'.name = n /\ last'.pub # None
       /\ pc' = pc
    \/ \E p \in Procs : pc[p] = "idle" /\ pc'[p] = "newclient_134" /\ name'[p] = n

\* a revoke for name n passes the admin check and looks n up in this step
RevokeRuns(n) ==
    \/ /\ last'.cmd = "revoke" /\ last'.name = n /\ pc' = pc
    \/ \E p \in Procs : pc[p] = "idle" /\ pc'[p] = "revoke_202" /\ name'[p] = n

\* C3: a newclient for a name that has a row answers with the duplicate-name
\* error and no other error, leaves the table as it is and does not touch
\* the interface
C3_DuplicateNameError ==
    [][\A n \in Names :
          (NewclientRuns(n) /\ NameExists(peers, n))
          => /\ last'.out = <<DuplicateReply>>
             /\ peers' = peers
             /\ iface' = iface]_vars

C5_PoolExhausted ==
    [][\A n \in Names :
          (NewclientRuns(n) /\ ~NameExists(peers, n))
          => IF Cardinality(peers) < PoolSize
             THEN /\ \E r \in peers' : r.name = n
                  /\ Cardinality(peers') = Cardinality(peers) + 1
                  /\ last'.out # <<PoolExhaustedReply>>
             ELSE /\ last'.out = <<PoolExhaustedReply>>
                  /\ peers' = peers
                  /\ iface' = iface]_vars

\* the pool is full and a newclient with a new name has just been refused
C5_Witness ==
    /\ Cardinality(peers) = PoolSize
    /\ last.cmd = "newclient"
    /\ last.name \in Names /\ ~NameExists(peers, last.name)
    /\ last.out = <<PoolExhaustedReply>>

\* C6: a row that newclient inserts has the lowest address of the range
\* that no row held before the step
C6_LowestFreeAddress ==
    [][\A r \in peers' \ peers :
          \E i \in Pool :
             /\ r.address = Address(i)
             /\ Address(i) \notin UsedAddresses(peers)
             /\ \A j \in Pool : j < i => Address(j) \in UsedAddresses(peers)]_vars

\* the first address of the pool is held by a row created after the row
\* that holds the second: it was freed by a revoke and given out again
C6_Witness ==
    \E r1, r2 \in peers :
        /\ r1.address = Address(CLIENT_START)
        /\ r2.address = Address(CLIENT_START + 1)
        /\ r1.created_at > r2.created_at
        /\ r1.name \notin {NameList[1], r2.name}

\* the names list_clients shows
Listed(rows) == {OrderById(rows)[i].name : i \in 1 .. Len(OrderById(rows))}

\* C7: a revoke (by a caller who passes the admin check) of a name that has
\* a row deletes the rows of that name and no other row, and the name is no
\* longer listed; a revoke of a name without a row answers not found and
\* leaves table and interface as they are
C7_Revoke ==
    [][/\ \A n \in Names :
            RevokeRuns(n) =>
              IF NameExists(peers, n)
              THEN \/ /\ last'.cmd = "revoke"
                      /\ peers' = {r \in peers : r.name # n}
                      /\ n \notin Listed(peers')
                   \/ /\ last' = NoRequest
                      /\ peers' = peers
              ELSE /\ last'.out = <<NotFoundReply>>
                   /\ peers' = peers
                   /\ iface' = iface
       /\ \A p \in Procs :
            pc[p] = "revoke_202" /\ pc'[p] # pc[p]
            => /\ last'.cmd = "revoke"
               /\ peers' = {r \in peers : r.name # name[p]}
               /\ name[p] \notin Listed(peers')]_vars

\* a revoke has just deleted the row of its name and another row is left
C7_Witness ==
    /\ last.cmd = "revoke"
    /\ last.name \in Names
    /\ last.out = <<RevokeDone(last.name, last.ip)>>
    /\ ~NameExists(peers, last.name)
    /\ peers # {}

\* C8: get_config changes neither the table nor the interface and runs
\* neither key generation nor address allocation; for a name without a row
\* it answers not found; for a name with a row it sends a document whose
\* text is the one sent before for that row, by the newclient that created
\* it or by an earlier get_config
C8_GetConfig ==
    /\ [](\A d1, d2 \in profile : d1.private_key = d2.private_key => d1.text = d2.text)
    /\ [][last'.cmd = "config" =>
            /\ UNCHANGED <<peers, iface, keysGenerated>>
            /\ \A i \in 1 .. Len(last'.calls) :
                  last'.calls[i][1] \in {"SELECT", "make_conf"}
            /\ last'.name \in Names =>
                  IF \E r \in peers : r.name = last'.name
                  THEN /\ last'.out[1].kind = "document"
                       /\ \A r \in peers, d \in profile :
                             (r.name = last'.name /\ d.private_key = r.private_key)
                             => last'.out[1].text = d.text
                  ELSE last'.out = <<NotFoundReply>>]_vars

\* get_config has just sent the profile of one of two rows, and it is the
\* text on record for the key of that row
C8_Witness ==
    /\ last.cmd = "config"
    /\ last.name \in Names
    /\ Cardinality(peers) = 2
    /\ \A p \in Procs : pc[p] = "idle"
    /\ \E r \in peers :
          /\ r.name = last.name
          /\ [private_key |-> r.private_key, text |-> last.out[1].text] \in profile

\* the replies of line 132
ApplyFailureReplies ==
    {reply_text("Ne udalos primenit k interfeisu: " \o e) :
        e \in {"wg set failed: stderr", "No such file or directory: wg"}}

\* C10: when applyPeer fails in newclient, the inserted row stays in the
\* table, the caller is told of the failure and then receives the profile
\* document, and a later get_config of that row sends the same text
C10_ApplyFailureKeepsRecord ==
    [][/\ \A p \in Procs :
            /\ (pc[p] = "idle" /\ pc'[p] = "newclient_134")
               => /\ \E r \in peers' \ peers :
                        /\ r.name = name'[p] /\ r.private_key = priv'[p]
                        /\ r.public_key = pub'[p] /\ r.address = ip'[p]
                  /\ peers \subseteq peers'
                  /\ out'[p] \in {<<m>> : m \in ApplyFailureReplies}
                  /\ iface' = iface
            /\ (pc[p] = "newclient_134" /\ pc'[p] # pc[p])
               => /\ peers' = peers
                  /\ last'.cmd = "newclient"
                  /\ last'.out[1] = out[p][1]
                  /\ last'.out[2].kind = "document"
                  /\ last'.out[2].filename = name[p] \o ".conf"
                  /\ (\E r \in peers : r.private_key = priv[p])
                     => [private_key |-> priv[p], text |-> last'.out[2].text] \in profile'
       /\ (APPLY_PEER /\ last'.cmd = "config")
          => \A r \in peers, d \in profile :
                (/\ r.name = last'.name
                 /\ r.public_key \notin IfaceKeys
                 /\ d.private_key = r.private_key)
                => last'.out[1].text = d.text]_vars

\* a newclient whose applyPeer failed has ended, its row is in the table
\* and not on the interface, and get_config has just sent the text on
\* record for that row
C10_Witness ==
    /\ APPLY_PEER
    /\ last.cmd = "config"
    /\ \A p \in Procs : pc[p] = "idle"
    /\ \E r \in peers :
          /\ r.name = last.name
          /\ r.public_key \notin IfaceKeys
          /\ [private_key |-> r.private_key, text |-> last.out[1].text] \in profile

\* the members of a sequence of replies or of calls
Range(s) == {s[i] : i \in 1 .. Len(s)}

\* C11: with live mutation enabled, a revoke that ends while the public key
\* it looked up is still on the interface (its removal has failed) has told
\* the caller of the failure, and the row of that key is deleted
C11_RemoveFailureReported ==
    [][(/\ APPLY_PEER
        /\ last'.cmd = "revoke"
        /\ last'.pub # None
        /\ last'.pub \in {e.public_key : e \in iface'})
       => /\ \A r \in peers' : r.public_key # last'.pub
          /\ \E m \in Range(last'.out) :
                m.kind = "text" /\ m # RevokeDone(last'.name, last'.ip)]_vars

\* the rows in the order of their creation
ByCreation(rows) ==
    CHOOSE s \in [1 .. Cardinality(rows) -> rows] :
        /\ Range(s) = rows
        /\ \A i, j \in 1 .. Cardinality(rows) : i < j => s[i].created_at < s[j].created_at

\* C12: list_clients, asked by the admin chat, answers with the rows that
\* are in the table, each once, a row created earlier before a row created
\* later (and with the no-clients text when the table is empty)
C12_ListInCreationOrder ==
    [][(last'.cmd = "list" /\ last'.chat = ADMIN_CHAT_ID)
       => last'.out = <<reply_text(IF peers = {} THEN "Net klientov"
                                   ELSE "Spisok klientov:" \o JoinLines(ByCreation(peers)))>>]_vars

\* the admin has listed two rows, the later of which was created after the
\* most recently created row had been revoked, and has taken over its id
C12_Witness ==
    /\ last.cmd = "list" /\ last.chat = ADMIN_CHAT_ID
    /\ Cardinality(peers) = 2
    /\ \E r \in peers : r.created_at = 3 /\ r.id = 2

\* "Key = Value" lines, each ended by a newline
RECURSIVE Block(_)
Block(fields) ==
    IF fields = << >> THEN ""
    ELSE fields[1][1] \o " = " \o fields[1][2] \o "\n" \o Block(Tail(fields))

\* the profile document of the format description, for a private key and
\* an address
Golden(private_key, address) ==
    "[Interface]\n"
    \o Block(<< <<"PrivateKey", private_key>>,
                <<"Address", address \o "/32">>,
                <<"DNS", "1.1.1.1">> >>)
    \o "\n[Peer]\n"
    \o Block(<< <<"PublicKey", SERVER_PUBLIC_KEY>>,
                <<"Endpoint", SERVER_PUBLIC_IP \o ":" \o ToString(SERVER_WG_PORT)>>,
                <<"AllowedIPs", "0.0.0.0/0, ::/0">>,
                <<"PersistentKeepalive", "25">> >>)

\* C13: every profile document that newclient or get_config sends is the
\* Interface section followed by the Peer section, with the fields in the
\* order PrivateKey, Address (/32), DNS, then PublicKey, Endpoint
\* (host:port), AllowedIPs (0.0.0.0/0, ::/0), PersistentKeepalive (25), for
\* the private key and the address of the row it is sent for
C13_ProfileFormat ==
    [][\A m \in Range(last'.out) :
          m.kind = "document" => m.text = Golden(last'.priv, last'.ip)]_vars

\* get_config has sent the profile of the second of two rows
C13_Witness ==
    /\ last.cmd = "config"
    /\ last.out # << >> /\ last.out[1].kind = "document"
    /\ last.priv = WgGenkey(2) /\ last.ip = Address(CLIENT_START + 1)
    /\ \E r \in peers : r.name = last.name /\ r.private_key = last.priv /\ r.address = last.ip

\* C14: a newclient for a name that has a row runs neither wg genkey nor
\* the address scan, and changes neither the table nor the interface
C14_RejectsExistingNameFirst ==
    [][\A n \in Names :
          (/\ last'.cmd = "newclient" /\ last'.name = n
           /\ \E r \in peers : r.name = n)
          => /\ <<"wg", "genkey">> \notin Range(last'.calls)
             /\ <<"next_free_ip">> \notin Range(last'.calls)
             /\ keysGenerated' = keysGenerated
             /\ UNCHANGED <<peers, iface>>]_vars

\* the statement wg set <interface> peer <pub> remove of line 199
RemoveCall(client_pub) == <<"wg", "set", "peer", client_pub, "remove">>

\* C15: with live mutation enabled, a revoke that found a row has run the
\* removal for the public key of that row before its DELETE: when it is
\* suspended before the DELETE the removal has been run, when it ends the
\* removal precedes the DELETE among its statements, and rows leave the
\* table only in the step in which a revoke ends
C15_RemoveBeforeDelete ==
    [][APPLY_PEER =>
        /\ \A p \in Procs :
              pc'[p] = "revoke_202"
              => /\ RemoveCall(pub'[p]) \in Range(calls'[p])
                 /\ \A c \in Range(calls'[p]) : c[1] # "DELETE"
        /\ (last'.cmd = "revoke" /\ last'.pub # None)
           => \E i, j \in 1 .. Len(last'.calls) :
                 /\ i < j
                 /\ last'.calls[i] = RemoveCall(last'.pub)
                 /\ last'.calls[j] = <<"DELETE", last'.name>>
                 /\ \A k \in 1 .. j - 1 : last'.calls[k][1] # "DELETE"
        /\ (peers \ peers' # {})
           => /\ last'.cmd = "revoke" /\ last'.pub # None
              /\ \A r \in peers \ peers' : r.name = last'.name]_vars

\* a revoke has ended whose removal could not be started: it reported
\* that, was resumed, and deleted the row
C15_Witness ==
    /\ APPLY_PEER
    /\ last.cmd = "revoke" /\ last.pub # None
    /\ Len(last.out) = 2
    /\ RemoveCall(last.pub) \in Range(last.calls)
    /\ \A r \in peers : r.name # last.name

\* a statement that runs wg set, to add or to remove a peer
IsWgSet(c) == Len(c) >= 3 /\ c[1] = "wg" /\ c[2] = "set"

\* C16: with live mutation disabled the interface stays as it was at the
\* start, no handler runs wg set, no handler is held up by a failure of the
\* interface, and a newclient that inserts a row ends with the profile
\* document, a revoke that finds a row ends with the deletion and its
\* confirmation only
C16_MutationDisabled ==
    /\ [](~APPLY_PEER =>
            /\ iface = {}
            /\ ~removeFailed
            /\ \A p \in Procs : pc[p] = "idle"
            /\ \A c \in Range(last.calls) : ~IsWgSet(c))
    /\ [][~APPLY_PEER =>
            /\ (peers' \ peers # {})
               => /\ last'.cmd = "newclient"
                  /\ last'.out[1].kind = "document"
                  /\ \A m \in Range(last'.out) : m.kind # "text"
            /\ (last'.cmd = "revoke" /\ last'.pub # None)
               => /\ last'.out = <<RevokeDone(last'.name, last'.ip)>>
                  /\ peers' = {r \in peers : r.name # last'.name}
                  /\ peers' # peers]_vars

\* with live mutation disabled, a revoke has deleted one of two rows
C16_Witness ==
    /\ ~APPLY_PEER
    /\ last.cmd = "revoke" /\ last.pub # None
    /\ Cardinality(peers) = 1
    /\ iface = {}

\* the statement of lines 98-99
ApplyCall(client_pub, client_ip) ==
    <<"wg", "set", "peer", client_pub, "allowed-ips", client_ip \o "/32">>

\* where a handler has run wg set ... allowed-ips among its statements
ApplyCalls(log) ==
    {i \in 1 .. Len(log) : IsWgSet(log[i]) /\ Len(log[i]) = 6 /\ log[i][5] = "allowed-ips"}

\* a handler that has run the statements log has applied at most once, the
\* key pu and the address a, after its INSERT of n, pr, pu, a
AppliedOwnRow(log, n, pr, pu, a) ==
    \A i \in ApplyCalls(log) :
        /\ ApplyCalls(log) = {i}
        /\ log[i] = ApplyCall(pu, a)
        /\ \E j \in 1 .. i - 1 : log[j] = <<"INSERT", n, pr, pu, a>>

\* C17: only newclient applies a peer to the interface, after its INSERT,
\* once, with the public key and the address of the row it inserted; the
\* key of an inserted row is new to the table and to the interface, and an
\* entry appears on the interface only in the step that inserts its row
C17_ApplyOncePerRecord ==
    [][/\ last'.cmd \in {"start", "list", "config", "revoke"}
          => ApplyCalls(last'.calls) = {}
       /\ \A p \in Procs :
             /\ pc'[p] = "revoke_202" => ApplyCalls(calls'[p]) = {}
             /\ pc'[p] = "newclient_134"
                => AppliedOwnRow(calls'[p], name'[p], priv'[p], pub'[p], ip'[p])
       /\ last'.cmd = "newclient"
          => AppliedOwnRow(last'.calls, last'.name, last'.priv, last'.pub, last'.ip)
       /\ \A r \in peers' \ peers : r.public_key \notin RegKeys \cup IfaceKeys
       /\ \A e \in iface' \ iface :
             /\ e.public_key \notin IfaceKeys
             /\ \E r \in peers' \ peers :
                   r.public_key = e.public_key /\ e.allowed_ips = r.address \o "/32"]_vars

\* newclient has inserted a second row and applied it to the interface
C17_Witness ==
    /\ APPLY_PEER
    /\ last.cmd = "newclient"
    /\ ApplyCalls(last.calls) # {}
    /\ last.ip = Address(CLIENT_START + 1)
    /\ [public_key |-> last.pub, allowed_ips |-> last.ip \o "/32"] \in iface
    /\ Cardinality(iface) = 2

\* the replies of line 119 to the exceptions of gen_keypair
ToolchainReplies ==
    {reply_text("Oshibka: " \o e) :
        e \in {"wg genkey failed: stderr", "wg pubkey failed: stderr",
               "No such file or directory: wg"}}

\* a newclient for a name has ended without a key pair
KeypairFailed(req) == req.cmd = "newclient" /\ req.name \in Names /\ req.pub = None

\* C18: a newclient whose key generation fails ends with the error reply
\* and nothing else, has neither scanned the pool nor run an INSERT or
\* wg set, leaves the table and the interface as they were, and its
\* handler has returned (further requests can be served); every row holds
\* a key pair that wg generated
C18_KeypairFailure ==
    /\ [](\A r \in peers : \E k \in 1 .. MaxKeys :
              r.private_key = WgGenkey(k) /\ r.public_key = WgPubkey(k))
    /\ [](KeypairFailed(last) => ENABLED (\E p \in Procs : get_config(p)))
    /\ [][KeypairFailed(last')
           => /\ last'.out \in {<<m>> : m \in ToolchainReplies}
              /\ \A c \in Range(last'.calls) : c \in {<<"wg", "genkey">>, <<"wg", "pubkey">>}
              /\ UNCHANGED <<peers, iface, pc>>
              /\ UsedAddresses(peers') = UsedAddresses(peers)]_vars

\* with one row in the table, a newclient has ended with the error of a
\* failed wg pubkey
C18_Witness ==
    /\ KeypairFailed(last)
    /\ last.out = <<reply_text("Oshibka: wg pubkey failed: stderr")>>
    /\ Cardinality(peers) = 1
    /\ \E p \in Procs : pc[p] = "idle"

\* C20: the rows that a revoke deletes have the public key and the address
\* that it read in its lookup, passed to the removal and reports as deleted
C20_RevokeDeletesWhatItRead ==
    [][(last'.cmd = "revoke" /\ last'.pub # None)
       => \A r \in peers \ peers' :
             r.public_key = last'.pub /\ r.address = last'.ip]_vars

\* the replies to a caller that is not the admin chat
DeniedReplies ==
    {reply_text("Tolko administrator mozhet smotret spisok klientov."),
     reply_text("Tolko administrator mozhet otzyvat klientov."),
     reply_text("Access denied.")}

\* a list or revoke request of either bot from a chat other than the admin
\* chat has ended
Denied(req) ==
    /\ req.cmd \in {"list", "revoke", "list_files", "revoke_files"}
    /\ req.chat # None /\ req.chat # ADMIN_CHAT_ID

\* C19: a list or revoke request from a chat other than the configured
\* admin chat is answered with the fixed denial text only, reads neither
\* the table nor the client files, and leaves the table, the client files
\* and the interface as they were
C19_AdminGate ==
    [][Denied(last')
       => /\ last'.out \in {<<m>> : m \in DeniedReplies}
          /\ last'.calls = << >>
          /\ UNCHANGED <<peers, files, iface>>]_vars

\* a revoke from another chat has been denied while there are rows in the
\* table and client files
C19_Witness ==
    /\ Denied(last)
    /\ last.cmd \in {"revoke", "revoke_files"}
    /\ peers # {}
    /\ files # {}

====
